---- MODULE Spec2Model ----
(***************************************************************************)
(* mcp-neo4j-remote: the credential chain (AuthManager, src/auth/manager)  *)
(* with the server facade's authenticate hook, and the graph memory store  *)
(* (Neo4jMemory, src/neo4j/memory).                                        *)
(***************************************************************************)
EXTENDS Integers, Sequences, FiniteSets, TLC

VARIABLES
    providers,    \* AuthManager.providers, in registration order
    authPc,       \* position of the one in-flight authenticate call
    authReq,      \* the request being authenticated
    iterIdx,      \* index of the for..of loop over this.providers (1-based)
    calls,        \* provider methods called for authReq, and the changes of the
                  \* provider list made while it was suspended, in order
    iterated,     \* the array object the for..of loop of authenticate iterates
    config,       \* what the AuthManager was constructed with
    authResult,   \* what AuthManager.authenticate returned or threw
    response,     \* what MCPNeo4jServer.authenticate returned or threw
    nodes,        \* the store's Memory nodes, by name
    edges,        \* the store's relationships: [source, relationType, target]
    call,         \* the tool call being served: its input, the graph before, its result
    openSessions, \* driver sessions opened and not yet closed
    boot,         \* the process: how far main has come, and how startup went
    inflight      \* per client, the store call of its request that is in flight

authVars == <<providers, authPc, authReq, iterIdx, calls, authResult, response,
              iterated, config>>

graphVars == <<nodes, edges, call>>

processVars == <<openSessions, boot, inflight>>

vars == <<providers, authPc, authReq, iterIdx, calls, authResult, response,
          iterated, config,
          nodes, edges, call, openSessions, boot, inflight>>

-----------------------------------------------------------------------------
(* The process: main, MCPNeo4jServer.start, process.exit.                  *)

\* main has built the server and is about to await server.start().
NotStarted ==
    [pc |-> "main", connectivity |-> "pending", index |-> "pending",
     transport |-> FALSE, exitCode |-> "none"]

\* start() has resolved: the store is initialised and the HTTP transport
\* listens.
Started ==
    [pc |-> "serving", connectivity |-> "ok", index |-> "ok",
     transport |-> TRUE, exitCode |-> "none"]

\* Requests reach the server only while its transport listens.
Serving == boot.pc = "serving"

\* main's catch: console.error, process.exit(1).
ProcessExit(b) == [b EXCEPT !.pc = "exited", !.exitCode = "1"]

-----------------------------------------------------------------------------
(* Requests and credential providers.                                      *)

\* The Authorization header and the x-api-key header of a request.
Requests ==
    [authorization : {"none", "Bearer good", "Bearer bad"},
     xApiKey       : {"none", "good", "bad"}]

NoRequest == [authorization |-> "none", xApiKey |-> "none"]

\* OAuthProvider.canHandle / ApiKeyProvider.canHandle: the scheme's marker
\* is present in the headers.
CanHandle(p, req) ==
    IF p = "oauth"
    THEN req.authorization \in {"Bearer good", "Bearer bad"}
    ELSE req.xApiKey # "none"

\* provider.authenticate resolves (TRUE) or rejects (FALSE).
ProviderAccepts(p, req) ==
    IF p = "oauth"
    THEN req.authorization = "Bearer good"
    ELSE req.xApiKey = "good"

\* The session a provider builds for a credential it accepted.
ProviderSession(p, req) ==
    IF p = "oauth"
    THEN [id |-> "oauth-session", type |-> "oauth", userId |-> "descope-user",
          name |-> "Descope User", provider |-> "descope",
          scopes |-> <<"read", "write">>]
    ELSE [id |-> "apikey-session", type |-> "apikey", userId |-> "apikey-user",
          name |-> "API Key User", provider |-> "apikey",
          scopes |-> <<"read", "write">>]

-----------------------------------------------------------------------------
(* AuthManager.                                                            *)

\* constructor: push the OAuth provider, then the API-key provider; a
\* provider whose constructor throws is logged and left out.
Constructor(descopeProjectId, apiKeysGiven, oauthThrows, apiKeyThrows) ==
    (IF descopeProjectId /\ ~oauthThrows THEN <<"oauth">> ELSE <<>>)
    \o (IF apiKeysGiven /\ ~apiKeyThrows THEN <<"apikey">> ELSE <<>>)

\* Neither a Descope project id nor API keys were given.
Unconfigured == [descopeProjectId |-> FALSE, apiKeys |-> FALSE]

\* The placeholder in a result that carries no session.
NoSession ==
    [id |-> "none", type |-> "none", userId |-> "none", name |-> "none",
     provider |-> "none", scopes |-> <<>>]

\* How a call ended: it returned a session, or it threw.
Returned(session) ==
    [kind |-> "session", session |-> session, error |-> "none",
     status |-> 0, body |-> "none"]

Thrown(error) ==
    [kind |-> "error", session |-> NoSession, error |-> error,
     status |-> 0, body |-> "none"]

Pending ==
    [kind |-> "pending", session |-> NoSession, error |-> "none",
     status |-> 0, body |-> "none"]

AnonymousSession ==
    [id |-> "no-auth", type |-> "oauth", userId |-> "anonymous",
     name |-> "Anonymous User", provider |-> "none",
     scopes |-> <<"read", "write">>]

AuthFailedError == "Authentication failed: No valid credentials provided"

\* No for..of loop over the providers is running.
NotIterating == [array |-> <<>>, live |-> FALSE]

\* Variant: the empty provider list is not treated as open access.
NoAuthConfiguredNever(ps) == FALSE

\* if (this.providers.length === 0)
NoAuthConfigured(ps) == Len(ps) = 0

\* Variant: authenticate is called without asking canHandle.
ProviderAppliesAlways(p, req) == TRUE

\* if (provider.canHandle(request))
ProviderApplies(p, req) == CanHandle(p, req)

\* Variant: the first provider failure rejects the request.
CatchProviderErrorRethrow(idx) ==
    [pc |-> "settled", idx |-> idx, result |-> Thrown(AuthFailedError)]

\* catch (error) { console.error(...); /* Continue to next provider */ }
CatchProviderError(idx) ==
    [pc |-> "loop", idx |-> idx + 1, result |-> Pending]

\* Variant: an exhausted chain falls back to the anonymous session.
LoopExhaustedFailOpen == Returned(AnonymousSession)

\* throw new Error('Authentication failed: No valid credentials provided')
LoopExhausted == Thrown(AuthFailedError)

\* authenticate(request), up to the first await or to its end when no
\* provider is configured.
Authenticate(req) ==
    /\ Serving
    /\ authPc = "idle"
    /\ authReq' = req
    /\ calls' = <<>>
    /\ response' = Pending
    /\ IF NoAuthConfigured(providers)
       THEN /\ authResult' = Returned(AnonymousSession)
            /\ authPc' = "settled"
            /\ iterIdx' = 0
            /\ iterated' = NotIterating
       ELSE /\ authResult' = Pending
            /\ authPc' = "loop"
            /\ iterIdx' = 1
            /\ iterated' = [array |-> providers, live |-> TRUE]
    /\ UNCHANGED <<providers, config>>
    /\ UNCHANGED graphVars
    /\ UNCHANGED processVars

\* One turn of `for (const provider of this.providers)`: the loop ends, or
\* the provider is asked canHandle and, if it can, its authenticate is called.
ProviderCheck ==
    /\ authPc = "loop"
    /\ IF iterIdx > Len(iterated.array)
       THEN /\ authResult' = LoopExhausted
            /\ authPc' = "settled"
            /\ UNCHANGED <<iterIdx, calls>>
       ELSE LET p == iterated.array[iterIdx] IN
            IF ProviderApplies(p, authReq)
            THEN /\ calls' = calls \o <<<<p, "canHandle">>, <<p, "authenticate">>>>
                 /\ authPc' = "await"
                 /\ UNCHANGED <<iterIdx, authResult>>
            ELSE /\ calls' = Append(calls, <<p, "canHandle">>)
                 /\ iterIdx' = iterIdx + 1
                 /\ UNCHANGED <<authPc, authResult>>
    /\ UNCHANGED <<providers, authReq, response, iterated, config>>
    /\ UNCHANGED graphVars
    /\ UNCHANGED processVars

\* `await provider.authenticate(request)` settles: return the session, or
\* catch the error and go on with the next provider.
ProviderSettles ==
    /\ authPc = "await"
    /\ LET p == iterated.array[iterIdx] IN
       IF ProviderAccepts(p, authReq)
       THEN /\ authResult' = Returned(ProviderSession(p, authReq))
            /\ authPc' = "settled"
            /\ UNCHANGED iterIdx
       ELSE LET c == CatchProviderError(iterIdx) IN
            /\ authPc' = c.pc
            /\ iterIdx' = c.idx
            /\ authResult' = c.result
    /\ UNCHANGED <<providers, authReq, calls, response, iterated, config>>
    /\ UNCHANGED graphVars
    /\ UNCHANGED processVars

-----------------------------------------------------------------------------
(* AuthManager.addProvider / removeProvider. JavaScript runs them to their  *)
(* end without interruption, so they run between calls of authenticate or   *)
(* while one is suspended at its await.                                     *)

MaxProviders == 3   \* longest provider list
MaxAdmin == 2       \* most list changes while one authenticate is suspended

ProviderNames == {"oauth", "apikey"}

\* The list changes logged for the suspended authenticate call.
AdminEntries(log) ==
    Cardinality({i \in 1..Len(log) : log[i][2] \in {"added", "removed"}})

\* An administrative call can run now.
AdminCanRun ==
    \/ authPc = "idle"
    \/ authPc = "await" /\ AdminEntries(calls) < MaxAdmin

\* this.providers = this.providers.filter(...): this.providers becomes a new
\* array; the array a running for..of loop iterates is the old one, which
\* keeps its elements and is no longer this.providers.
DetachIterated(it, name) == [it EXCEPT !.live = FALSE]

\* this.providers.push(provider): the array is extended in place, which a
\* running for..of loop over that same array sees.
PushIterated(it, p) ==
    IF it.live THEN [it EXCEPT !.array = Append(@, p)] ELSE it

\* addProvider(provider)
AddProvider(p) ==
    /\ AdminCanRun
    /\ Len(providers) < MaxProviders
    /\ providers' = Append(providers, p)
    /\ IF authPc = "await"
       THEN /\ iterated' = PushIterated(iterated, p)
            /\ calls' = Append(calls, <<p, "added">>)
       ELSE UNCHANGED <<iterated, calls>>
    /\ UNCHANGED <<authPc, authReq, iterIdx, authResult, response, config>>
    /\ UNCHANGED graphVars
    /\ UNCHANGED processVars

\* removeProvider(name)
RemoveProvider(name) ==
    /\ AdminCanRun
    /\ providers' = SelectSeq(providers, LAMBDA q : q # name)
    /\ IF authPc = "await"
       THEN /\ iterated' = DetachIterated(iterated, name)
            /\ calls' = Append(calls, <<name, "removed">>)
       ELSE UNCHANGED <<iterated, calls>>
    /\ UNCHANGED <<authPc, authReq, iterIdx, authResult, response, config>>
    /\ UNCHANGED graphVars
    /\ UNCHANGED processVars

-----------------------------------------------------------------------------
(* MCPNeo4jServer.authenticate.                                            *)

\* new Response(JSON.stringify({ error: 'Authentication required' }),
\*              { status: 401, statusText: 'Unauthorized', ... })
Unauthorized ==
    [kind |-> "response", session |-> NoSession, error |-> "none",
     status |-> 401, body |-> "{\"error\":\"Authentication required\"}"]

\* catch (error) { throw new Response(JSON.stringify({error: ...}), {status: 401}) }
FacadeCatch(error) == Unauthorized

\* The facade's await of authManager.authenticate settles.
FacadeAuthenticate ==
    /\ authPc = "settled"
    /\ response' = IF authResult.kind = "session"
                   THEN authResult
                   ELSE FacadeCatch(authResult.error)
    /\ authPc' = "idle"
    /\ UNCHANGED <<providers, authReq, iterIdx, calls, authResult, iterated, config>>
    /\ UNCHANGED graphVars
    /\ UNCHANGED processVars

-----------------------------------------------------------------------------
(* Neo4jMemory: the graph store.                                           *)

MaxLen == 3      \* longest observations / contents list of an input
MaxRows == 1     \* most rows in one call on the observation log
MaxBatch == 2    \* most rows in one call on entities and relations

Names == {"A", "B"}
Types == {"Person", "City"}
Strings == {"x", "y"}
RelTypes == {"knows", "likes"}

\* A name no node carries.
Absent == [exists |-> FALSE, type |-> "", observations |-> <<>>, labels |-> {}]

EmptyNodes == [n \in Names |-> Absent]

Graph(ns, es) == [nodes |-> ns, edges |-> es]

InSeq(x, seq) == \E i \in 1..Len(seq) : seq[i] = x

RECURSIVE SetToSeq(_)
SetToSeq(S) ==
    IF S = {} THEN <<>>
    ELSE LET x == CHOOSE y \in S : TRUE IN <<x>> \o SetToSeq(S \ {x})

\* Cypher's collect(distinct ...): the first occurrence of each value.
RECURSIVE Distinct(_)
Distinct(seq) ==
    IF seq = <<>> THEN <<>>
    ELSE LET front == Distinct(SubSeq(seq, 1, Len(seq) - 1))
             x == seq[Len(seq)]
         IN IF InSeq(x, front) THEN front ELSE Append(front, x)

\* The label in createEntities' query text: the template literal escapes
\* both the backticks and the dollar sign of `\${entity.type}`, so the text
\* sent to the store names the label ${entity.type}, whatever the type.
TypeLabelInQuery(type) == "${entity.type}"

\* The relationship type in createRelations' and deleteRelations' query
\* text, [r:`\${relationType}`]: the same escaped template, so the text
\* names the type ${relationType}; the $relationType parameter is not used.
RelTypeInQuery(relationType) == "${relationType}"

\* Variant: properties are set only when the node is created (ON CREATE SET).
MergeEntityOnCreate(ns, entity) ==
    IF ns[entity.name].exists THEN ns
    ELSE [ns EXCEPT ![entity.name] =
             [exists |-> TRUE, type |-> entity.type,
              observations |-> entity.observations,
              labels |-> {"Memory", TypeLabelInQuery(entity.type)}]]

\* Variant: the supplied observations are appended to the stored ones.
MergeEntityAppend(ns, entity) ==
    [ns EXCEPT ![entity.name] =
        [exists |-> TRUE, type |-> entity.type,
         observations |-> @.observations \o entity.observations,
         labels |-> @.labels \cup {"Memory", TypeLabelInQuery(entity.type)}]]

\* MERGE (e:Memory { name: entity.name })  SET e += entity, e:`...`
MergeEntity(ns, entity) ==
    [ns EXCEPT ![entity.name] =
        [exists |-> TRUE, type |-> entity.type,
         observations |-> entity.observations,
         labels |-> @.labels \cup {"Memory", TypeLabelInQuery(entity.type)}]]

\* UNWIND $entities as entity ...: one merge per row, in order.
RECURSIVE CreateEntitiesQuery(_, _)
CreateEntitiesQuery(ns, entities) ==
    IF entities = <<>> THEN ns
    ELSE CreateEntitiesQuery(MergeEntity(ns, Head(entities)), Tail(entities))

\* return entities
CreateEntitiesResult(entities) == entities

\* Variant: the whole pattern is merged, MERGE (from { name })-[r]->(to
\* { name }), so the edge is written whether or not the nodes were found.
MergeRelationUnmatched(ns, es, relation) ==
    es \cup {[source |-> relation.source,
              relationType |-> RelTypeInQuery(relation.relationType),
              target |-> relation.target]}

\* Variant: the endpoints are matched optionally, so the edge is written
\* as soon as one of them is found.
MergeRelationEitherEndpoint(ns, es, relation) ==
    IF ns[relation.source].exists \/ ns[relation.target].exists
    THEN es \cup {[source |-> relation.source,
                   relationType |-> RelTypeInQuery(relation.relationType),
                   target |-> relation.target]}
    ELSE es

\* MATCH (from), MATCH (to), MERGE (from)-[r:`...`]->(to): nothing is
\* written unless both nodes exist; an existing edge is matched, not added.
MergeRelation(ns, es, relation) ==
    IF ns[relation.source].exists /\ ns[relation.target].exists
    THEN es \cup {[source |-> relation.source,
                   relationType |-> RelTypeInQuery(relation.relationType),
                   target |-> relation.target]}
    ELSE es

\* for (const relation of relations) { await session.run(query, ...) }
RECURSIVE CreateRelationsLoop(_, _, _)
CreateRelationsLoop(ns, es, relations) ==
    IF relations = <<>> THEN es
    ELSE CreateRelationsLoop(ns, MergeRelation(ns, es, Head(relations)),
                             Tail(relations))

\* [o in obs.contents WHERE NOT o IN coalesce(e.observations, [])]
NewObservations(contents, existing) ==
    SelectSeq(contents, LAMBDA o : ~InSeq(o, existing))

\* addObservations' query over its rows. The WITH clause reads
\* e.observations and the SET clause writes it: the store either runs each
\* row through both clauses before the next row (eager = FALSE) or finishes
\* WITH for every row before SET (eager = TRUE, `read` being the nodes as
\* the query found them). Rows naming no node yield no record.
RECURSIVE AddObservationsQuery(_, _, _, _)
AddObservationsQuery(ns, read, observations, eager) ==
    IF observations = <<>> THEN [nodes |-> ns, records |-> <<>>]
    ELSE LET obs == Head(observations)
             e == obs.entityName
         IN IF ~ns[e].exists
            THEN AddObservationsQuery(ns, read, Tail(observations), eager)
            ELSE LET new == NewObservations(obs.contents,
                               IF eager THEN read[e].observations
                                        ELSE ns[e].observations)
                     set == [ns EXCEPT ![e].observations = @ \o new]
                     rest == AddObservationsQuery(set, read, Tail(observations), eager)
                 IN [nodes |-> rest.nodes,
                     records |-> <<[entityName |-> e, addedObservations |-> new]>>
                                 \o rest.records]

\* Variant: the filter without its NOT keeps the listed strings instead.
RemoveObservationsKept(existing, listed) ==
    SelectSeq(existing, LAMBDA o : InSeq(o, listed))

\* SET e.observations = [o in coalesce(e.observations, []) WHERE NOT o IN d.observations]
RemoveObservations(existing, listed) ==
    SelectSeq(existing, LAMBDA o : ~InSeq(o, listed))

RECURSIVE DeleteObservationsQuery(_, _)
DeleteObservationsQuery(ns, deletions) ==
    IF deletions = <<>> THEN ns
    ELSE LET d == Head(deletions)
             set == IF ns[d.entityName].exists
                    THEN [ns EXCEPT ![d.entityName].observations =
                             RemoveObservations(@, d.observations)]
                    ELSE ns
         IN DeleteObservationsQuery(set, Tail(deletions))

\* Variant: only the relationships leaving a deleted node go with it.
DeleteEntitiesQueryOutgoing(g, entityNames) ==
    LET gone == {n \in Names : InSeq(n, entityNames)} IN
    Graph([n \in Names |-> IF n \in gone THEN Absent ELSE g.nodes[n]],
          {r \in g.edges : r.source \notin gone})

\* UNWIND $entities as name  MATCH (e:Memory { name: name })  DETACH DELETE e
DeleteEntitiesQuery(g, entityNames) ==
    LET gone == {n \in Names : InSeq(n, entityNames)} IN
    Graph([n \in Names |-> IF n \in gone THEN Absent ELSE g.nodes[n]],
          {r \in g.edges : r.source \notin gone /\ r.target \notin gone})

\* MATCH (source)-[r:`...`]->(target)  DELETE r, once per relation.
RECURSIVE DeleteRelationsLoop(_, _)
DeleteRelationsLoop(es, relations) ==
    IF relations = <<>> THEN es
    ELSE DeleteRelationsLoop(
             es \ {[source |-> Head(relations).source,
                    relationType |-> RelTypeInQuery(Head(relations).relationType),
                    target |-> Head(relations).target]},
             Tail(relations))

\* db.index.fulltext.queryNodes('search', $filter) over the index on name,
\* type and observations: '*' matches every node, a term the nodes that
\* hold it in one of the three fields.
FulltextMatches(filter, name, node) ==
    \/ filter = "*"
    \/ filter = name
    \/ filter = node.type
    \/ InSeq(filter, node.observations)

NoRelation == [source |-> "", target |-> "", relationType |-> ""]

\* Variant: the pattern is directed, OPTIONAL MATCH (entity)-[r]->(other).
LoadGraphRowsOutgoing(g, filter) ==
    LET matched == SelectSeq(SetToSeq(Names),
                       LAMBDA n : g.nodes[n].exists
                                  /\ FulltextMatches(filter, n, g.nodes[n]))
        RowsOf(n) ==
            LET touching == SelectSeq(SetToSeq(g.edges), LAMBDA r : r.source = n)
                entity == [name |-> n, type |-> g.nodes[n].type,
                           observations |-> g.nodes[n].observations]
            IN IF touching = <<>>
               THEN <<[entity |-> entity, rel |-> NoRelation]>>
               ELSE [i \in 1..Len(touching) |->
                        [entity |-> entity, rel |-> touching[i]]]
        RECURSIVE Rows(_)
        Rows(k) == IF k = 0 THEN <<>> ELSE Rows(k - 1) \o RowsOf(matched[k])
    IN Rows(Len(matched))

\* The rows of loadGraph's query before aggregation: each matched node with
\* each relationship it takes part in, either direction, or with none.
LoadGraphRows(g, filter) ==
    LET matched == SelectSeq(SetToSeq(Names),
                       LAMBDA n : g.nodes[n].exists
                                  /\ FulltextMatches(filter, n, g.nodes[n]))
        RowsOf(n) ==
            LET touching == SelectSeq(SetToSeq(g.edges),
                                LAMBDA r : r.source = n \/ r.target = n)
                entity == [name |-> n, type |-> g.nodes[n].type,
                           observations |-> g.nodes[n].observations]
            IN IF touching = <<>>
               THEN <<[entity |-> entity, rel |-> NoRelation]>>
               ELSE [i \in 1..Len(touching) |->
                        [entity |-> entity, rel |-> touching[i]]]
        RECURSIVE Rows(_)
        Rows(k) == IF k = 0 THEN <<>> ELSE Rows(k - 1) \o RowsOf(matched[k])
    IN Rows(Len(matched))

\* loadGraph: collect(distinct ...) of both columns, then the filters that
\* drop nameless entities and relations with a missing field.
LoadGraph(g, filter) ==
    LET rows == LoadGraphRows(g, filter)
        ns == Distinct([i \in 1..Len(rows) |-> rows[i].entity])
        rels == Distinct([i \in 1..Len(rows) |-> rows[i].rel])
    IN [entities |-> SelectSeq(ns, LAMBDA e : e.name # ""),
        relations |-> SelectSeq(rels, LAMBDA r :
                         r.source # "" /\ r.target # "" /\ r.relationType # "")]

EmptyGraphResult == [entities |-> <<>>, relations |-> <<>>]

\* The rows of getStats' query before aggregation, MATCH (e:Memory)
\* OPTIONAL MATCH (e)-[r]-(): each node with each relationship attached to
\* it, either direction, or once with none.
GetStatsRows(g) ==
    LET all == SelectSeq(SetToSeq(Names), LAMBDA n : g.nodes[n].exists)
        RowsOf(n) ==
            LET attached == SelectSeq(SetToSeq(g.edges),
                                LAMBDA r : r.source = n \/ r.target = n)
            IN IF attached = <<>>
               THEN <<[e |-> n, r |-> NoRelation]>>
               ELSE [i \in 1..Len(attached) |-> [e |-> n, r |-> attached[i]]]
        RECURSIVE Rows(_)
        Rows(k) == IF k = 0 THEN <<>> ELSE Rows(k - 1) \o RowsOf(all[k])
    IN Rows(Len(all))

\* sum(size(coalesce(e.observations, []))) over the first k rows.
RECURSIVE SumObservationSizes(_, _, _)
SumObservationSizes(g, rows, k) ==
    IF k = 0 THEN 0
    ELSE SumObservationSizes(g, rows, k - 1) + Len(g.nodes[rows[k].e].observations)

\* getStats: count(distinct e), count(distinct r) and the sum, all three
\* aggregated over the same rows.
GetStatsQuery(g) ==
    LET rows == GetStatsRows(g) IN
    [entities |-> Cardinality({rows[i].e : i \in 1..Len(rows)}),
     relations |-> Cardinality({rows[i].r : i \in 1..Len(rows)} \ {NoRelation}),
     totalObservations |-> SumObservationSizes(g, rows, Len(rows))]

NoStats == [entities |-> 0, relations |-> 0, totalObservations |-> 0]

\* No tool call is being served.
Idle ==
    [op |-> "idle", entities |-> <<>>, relations |-> <<>>, observations |-> <<>>,
     deletions |-> <<>>, entityNames |-> <<>>, filter |-> "", repeated |-> FALSE,
     before |-> Graph(EmptyNodes, {}),
     returnedEntities |-> <<>>, returnedRelations |-> <<>>,
     records |-> <<>>, graph |-> EmptyGraphResult, stats |-> NoStats,
     pc |-> "idle", k |-> 0, opened |-> 0, closed |-> 0,
     storeError |-> "none", error |-> "none"]

\* The transport listens and no tool call is being served: the next call's
\* input can arrive.
Ready == Serving /\ call.op = "idle"

\* createEntities(entities)
CreateEntities(entities) ==
    /\ Serving
    /\ call.op = "idle"
    /\ nodes' = CreateEntitiesQuery(nodes, entities)
    /\ call' = [Idle EXCEPT !.op = "createEntities", !.entities = entities,
                            !.before = Graph(nodes, edges), !.pc = "settled",
                            !.returnedEntities = CreateEntitiesResult(entities)]
    /\ UNCHANGED edges
    /\ UNCHANGED authVars
    /\ UNCHANGED processVars

\* The client, answered, at once calls createEntities again with the
\* identical input.
CreateEntitiesAgain ==
    /\ call.op = "createEntities"
    /\ ~call.repeated
    /\ nodes' = CreateEntitiesQuery(nodes, call.entities)
    /\ call' = [call EXCEPT !.repeated = TRUE,
                            !.before = Graph(nodes, edges), !.pc = "settled",
                            !.returnedEntities = CreateEntitiesResult(call.entities)]
    /\ UNCHANGED edges
    /\ UNCHANGED authVars
    /\ UNCHANGED processVars

\* createRelations(relations)
CreateRelations(relations) ==
    /\ Serving
    /\ call.op = "idle"
    /\ edges' = CreateRelationsLoop(nodes, edges, relations)
    /\ call' = [Idle EXCEPT !.op = "createRelations", !.relations = relations,
                            !.before = Graph(nodes, edges), !.pc = "settled",
                            !.returnedRelations = relations]
    /\ UNCHANGED nodes
    /\ UNCHANGED authVars
    /\ UNCHANGED processVars

\* addObservations(observations)
AddObservations(observations) ==
    /\ Serving
    /\ call.op = "idle"
    /\ \E eager \in BOOLEAN :
          LET done == AddObservationsQuery(nodes, nodes, observations, eager) IN
          /\ nodes' = done.nodes
          /\ call' = [Idle EXCEPT !.op = "addObservations",
                                  !.observations = observations,
                                  !.before = Graph(nodes, edges), !.pc = "settled",
                                  !.records = done.records]
    /\ UNCHANGED edges
    /\ UNCHANGED authVars
    /\ UNCHANGED processVars

\* deleteObservations(deletions)
DeleteObservations(deletions) ==
    /\ Serving
    /\ call.op = "idle"
    /\ nodes' = DeleteObservationsQuery(nodes, deletions)
    /\ call' = [Idle EXCEPT !.op = "deleteObservations", !.deletions = deletions,
                            !.before = Graph(nodes, edges), !.pc = "settled"]
    /\ UNCHANGED edges
    /\ UNCHANGED authVars
    /\ UNCHANGED processVars

\* deleteEntities(entityNames)
DeleteEntities(entityNames) ==
    /\ Serving
    /\ call.op = "idle"
    /\ LET g == DeleteEntitiesQuery(Graph(nodes, edges), entityNames) IN
       /\ nodes' = g.nodes
       /\ edges' = g.edges
    /\ call' = [Idle EXCEPT !.op = "deleteEntities", !.entityNames = entityNames,
                            !.before = Graph(nodes, edges), !.pc = "settled"]
    /\ UNCHANGED authVars
    /\ UNCHANGED processVars

\* deleteRelations(relations)
DeleteRelations(relations) ==
    /\ Serving
    /\ call.op = "idle"
    /\ edges' = DeleteRelationsLoop(edges, relations)
    /\ call' = [Idle EXCEPT !.op = "deleteRelations", !.relations = relations,
                            !.before = Graph(nodes, edges), !.pc = "settled"]
    /\ UNCHANGED nodes
    /\ UNCHANGED authVars
    /\ UNCHANGED processVars

\* readGraph() = loadGraph('*'); searchNodes(query) = loadGraph(query)
ReadGraph(filter) ==
    /\ Serving
    /\ call.op = "idle"
    /\ call' = [Idle EXCEPT !.op = "loadGraph", !.filter = filter,
                            !.before = Graph(nodes, edges), !.pc = "settled",
                            !.graph = LoadGraph(Graph(nodes, edges), filter)]
    /\ UNCHANGED <<nodes, edges>>
    /\ UNCHANGED authVars
    /\ UNCHANGED processVars

\* getStats(), called by the status resource's load.
GetStats ==
    /\ Serving
    /\ call.op = "idle"
    /\ call' = [Idle EXCEPT !.op = "getStats",
                            !.before = Graph(nodes, edges), !.pc = "settled",
                            !.stats = GetStatsQuery(Graph(nodes, edges))]
    /\ UNCHANGED <<nodes, edges>>
    /\ UNCHANGED authVars
    /\ UNCHANGED processVars

\* The tool's execute returns the serialised result to the client.
ToolReturns ==
    /\ Serving
    /\ call.op # "idle"
    /\ call.pc = "settled"
    /\ call' = Idle
    /\ UNCHANGED <<nodes, edges>>
    /\ UNCHANGED authVars
    /\ UNCHANGED processVars

-----------------------------------------------------------------------------
(* The same operations query by query, on a store that may fail: each opens *)
(* a session, awaits its queries inside try, and closes the session in      *)
(* finally.                                                                 *)

\* The queries the call awaits: one per relation in createRelations and
\* deleteRelations, a single one in every other operation.
QueryCount(c) ==
    IF c.op \in {"createRelations", "deleteRelations"} THEN Len(c.relations) ELSE 1

\* What session.run may reject with. The driver's errors all propagate alike;
\* createFulltextIndex tells one message apart.
IndexExists == "An index with this name already exists"

QueryErrors(op) ==
    IF op = "createFulltextIndex" THEN {IndexExists, "ServiceUnavailable"}
    ELSE {"ServiceUnavailable"}

\* const session = this.driver.session(...), then the try block is entered.
OpenSession(c) ==
    /\ call.op = "idle"
    /\ openSessions' = openSessions + 1
    /\ call' = [c EXCEPT !.before = Graph(nodes, edges), !.opened = 1, !.k = 1,
                         !.pc = IF QueryCount(c) = 0 THEN "finally" ELSE "run"]
    /\ UNCHANGED <<nodes, edges>>

\* A request for a store operation arrives and its handler opens a session.
BeginCall(c) ==
    /\ Serving
    /\ OpenSession(c)
    /\ UNCHANGED boot
    /\ UNCHANGED authVars
    /\ UNCHANGED inflight

CallCreateEntities(entities) ==
    BeginCall([Idle EXCEPT !.op = "createEntities", !.entities = entities])

CallCreateRelations(relations) ==
    BeginCall([Idle EXCEPT !.op = "createRelations", !.relations = relations])

CallAddObservations(observations) ==
    BeginCall([Idle EXCEPT !.op = "addObservations", !.observations = observations])

CallDeleteEntities(entityNames) ==
    BeginCall([Idle EXCEPT !.op = "deleteEntities", !.entityNames = entityNames])

CallDeleteObservations(deletions) ==
    BeginCall([Idle EXCEPT !.op = "deleteObservations", !.deletions = deletions])

CallDeleteRelations(relations) ==
    BeginCall([Idle EXCEPT !.op = "deleteRelations", !.relations = relations])

CallLoadGraph(filter) ==
    BeginCall([Idle EXCEPT !.op = "loadGraph", !.filter = filter])

CallGetStats ==
    BeginCall([Idle EXCEPT !.op = "getStats"])

\* await session.run(...) of the call's k-th query resolves: the graph it
\* leaves and what the handler keeps of its result.
RunQuery(c, g, eager) ==
    CASE c.op = "createFulltextIndex" -> [graph |-> g, call |-> c]
      [] c.op = "loadGraph" ->
            [graph |-> g, call |-> [c EXCEPT !.graph = LoadGraph(g, c.filter)]]
      [] c.op = "getStats" ->
            [graph |-> g, call |-> [c EXCEPT !.stats = GetStatsQuery(g)]]
      [] c.op = "createEntities" ->
            [graph |-> Graph(CreateEntitiesQuery(g.nodes, c.entities), g.edges),
             call |-> [c EXCEPT !.returnedEntities = CreateEntitiesResult(c.entities)]]
      [] c.op = "createRelations" ->
            [graph |-> Graph(g.nodes, MergeRelation(g.nodes, g.edges, c.relations[c.k])),
             call |-> [c EXCEPT !.returnedRelations =
                          IF c.k = Len(c.relations) THEN c.relations ELSE <<>>]]
      [] c.op = "addObservations" ->
            LET done == AddObservationsQuery(g.nodes, g.nodes, c.observations, eager)
            IN [graph |-> Graph(done.nodes, g.edges),
                call |-> [c EXCEPT !.records = done.records]]
      [] c.op = "deleteEntities" ->
            [graph |-> DeleteEntitiesQuery(g, c.entityNames), call |-> c]
      [] c.op = "deleteObservations" ->
            [graph |-> Graph(DeleteObservationsQuery(g.nodes, c.deletions), g.edges),
             call |-> c]
      [] c.op = "deleteRelations" ->
            [graph |-> Graph(g.nodes, DeleteRelationsLoop(g.edges, <<c.relations[c.k]>>)),
             call |-> c]

\* After a query: the loop's next relation, or out of the try block.
NextQuery(c) ==
    [c EXCEPT !.k = @ + 1,
              !.pc = IF c.k + 1 > QueryCount(c) THEN "finally" ELSE "run"]

\* Variant: createFulltextIndex's catch swallows whatever was thrown.
IndexCatchAll(error) == "none"

\* createFulltextIndex's catch: the error is rethrown unless its message
\* includes 'An index with this name already exists'.
IndexCatch(error) == IF error = IndexExists THEN "none" ELSE error

\* Variant: the operations run inside one explicit transaction, which a
\* failed query rolls back.
OneTransaction(before, now) == before

\* Each session.run is its own auto-commit transaction: when one rejects,
\* what the runs before it wrote stays written.
AutoCommit(before, now) == now

\* Variant: session.close() is the last statement of the try block, so a
\* rejected query throws past it.
QueryRejectsPastClose(c, error) ==
    [c EXCEPT !.storeError = error,
              !.error = IF c.op = "createFulltextIndex" THEN IndexCatch(error)
                        ELSE error,
              !.pc = "settled"]

\* await session.run(...) rejects: control leaves the try block with the
\* error (through the catch block in createFulltextIndex) and enters finally.
QueryRejects(c, error) ==
    [c EXCEPT !.storeError = error,
              !.error = IF c.op = "createFulltextIndex" THEN IndexCatch(error)
                        ELSE error,
              !.pc = "finally"]

\* The call's pending session.run settles.
SessionRun ==
    /\ call.pc = "run"
    /\ \E error \in {"none"} \cup QueryErrors(call.op), eager \in BOOLEAN :
          IF error = "none"
          THEN LET done == RunQuery(call, Graph(nodes, edges), eager) IN
               /\ nodes' = done.graph.nodes
               /\ edges' = done.graph.edges
               /\ call' = NextQuery(done.call)
          ELSE LET kept == AutoCommit(call.before, Graph(nodes, edges)) IN
               /\ nodes' = kept.nodes
               /\ edges' = kept.edges
               /\ call' = QueryRejects(call, error)
    /\ UNCHANGED <<openSessions, boot>>
    /\ UNCHANGED authVars
    /\ UNCHANGED inflight

\* finally { await session.close(); }, after which the operation returns
\* or throws.
SessionClose ==
    /\ call.pc = "finally"
    /\ openSessions' = openSessions - 1
    /\ call' = [call EXCEPT !.closed = @ + 1, !.pc = "settled"]
    /\ UNCHANGED <<nodes, edges, boot>>
    /\ UNCHANGED authVars
    /\ UNCHANGED inflight

\* Neo4jMemory.initialize: await this.driver.verifyConnectivity(). A
\* rejection passes through the catch blocks of both initialize methods and
\* of main.
VerifyConnectivity ==
    /\ boot.pc = "main"
    /\ \E ok \in BOOLEAN :
          boot' = IF ok THEN [boot EXCEPT !.pc = "connected", !.connectivity = "ok"]
                  ELSE ProcessExit([boot EXCEPT !.connectivity = "failed"])
    /\ UNCHANGED <<nodes, edges, call, openSessions>>
    /\ UNCHANGED authVars
    /\ UNCHANGED inflight

\* Neo4jMemory.initialize: await this.createFulltextIndex().
CreateFulltextIndex ==
    /\ boot.pc = "connected"
    /\ OpenSession([Idle EXCEPT !.op = "createFulltextIndex"])
    /\ boot' = [boot EXCEPT !.pc = "indexing"]
    /\ UNCHANGED authVars
    /\ UNCHANGED inflight

\* How the CREATE FULLTEXT INDEX query went, by what session.run rejected
\* with.
IndexOutcome(storeError) ==
    IF storeError = "none" THEN "ok"
    ELSE IF storeError = IndexExists THEN "exists" ELSE "failed"

\* createFulltextIndex has returned or thrown; initialize resolves, or
\* rejects and main exits.
InitializeSettles ==
    /\ boot.pc = "indexing"
    /\ call.pc = "settled"
    /\ LET b == [boot EXCEPT !.index = IndexOutcome(call.storeError)] IN
       boot' = IF call.error = "none" THEN [b EXCEPT !.pc = "initialized"]
               ELSE ProcessExit(b)
    /\ call' = Idle
    /\ UNCHANGED <<nodes, edges, openSessions>>
    /\ UNCHANGED authVars
    /\ UNCHANGED inflight

\* MCPNeo4jServer.start, after await this.initialize(): this.server.start
\* with the httpStream transport.
ServerStart ==
    /\ boot.pc = "initialized"
    /\ boot' = [boot EXCEPT !.pc = "serving", !.transport = TRUE]
    /\ UNCHANGED <<nodes, edges, call, openSessions>>
    /\ UNCHANGED authVars
    /\ UNCHANGED inflight

-----------------------------------------------------------------------------
(* Concurrent requests: each client's handler opens its own session and    *)
(* awaits its queries one at a time; between two awaits the handlers of    *)
(* other requests run. No lock is taken in the process.                    *)

Clients == {"c1", "c2"}

\* A client without a store call in flight.
NoCall ==
    [op |-> "idle", pc |-> "idle", entities |-> <<>>, relations |-> <<>>,
     entityNames |-> <<>>, wrote |-> 0]

NoCalls == [c \in Clients |-> NoCall]

\* The client has no call in flight and the transport listens.
ClientReady(c) == Serving /\ inflight[c].op = "idle"

\* The handler of c's request calls a store operation: the session is
\* opened and the try block entered. `request` holds the operation and the
\* input still to be sent to the store.
ClientCalls(c, request) ==
    /\ ClientReady(c)
    /\ openSessions' = openSessions + 1
    /\ inflight' = [inflight EXCEPT ![c] =
           [request EXCEPT !.pc = IF request.op \in {"createRelations", "deleteRelations"}
                                    /\ request.relations = <<>>
                                 THEN "finally" ELSE "run"]]
    /\ UNCHANGED <<nodes, edges, call, boot>>
    /\ UNCHANGED authVars

ClientCreateEntities(c, entities) ==
    ClientCalls(c, [NoCall EXCEPT !.op = "createEntities", !.entities = entities])

ClientCreateRelations(c, relations) ==
    ClientCalls(c, [NoCall EXCEPT !.op = "createRelations", !.relations = relations])

ClientDeleteEntities(c, entityNames) ==
    ClientCalls(c, [NoCall EXCEPT !.op = "deleteEntities", !.entityNames = entityNames])

ClientDeleteRelations(c, relations) ==
    ClientCalls(c, [NoCall EXCEPT !.op = "deleteRelations", !.relations = relations])

\* The graph after the next query of c's call, each query being one
\* transaction of the store.
ClientQueryEffect(q, g) ==
    CASE q.op = "createEntities" ->
            Graph(CreateEntitiesQuery(g.nodes, q.entities), g.edges)
      [] q.op = "deleteEntities" -> DeleteEntitiesQuery(g, q.entityNames)
      [] q.op = "createRelations" ->
            Graph(g.nodes, MergeRelation(g.nodes, g.edges, Head(q.relations)))
      [] q.op = "deleteRelations" ->
            Graph(g.nodes, DeleteRelationsLoop(g.edges, <<Head(q.relations)>>))

\* c's call after its query resolved: the for loop goes on with the rest of
\* the relations, or the try block is left.
ClientAfterQuery(q, added) ==
    IF q.op \in {"createRelations", "deleteRelations"}
    THEN [q EXCEPT !.relations = Tail(@),
                   !.wrote = @ + added,
                   !.pc = IF Len(q.relations) = 1 THEN "finally" ELSE "run"]
    ELSE [q EXCEPT !.pc = "finally"]

\* await session.run(...) of c's call resolves.
ClientQuery(c) ==
    /\ inflight[c].pc = "run"
    /\ LET g == ClientQueryEffect(inflight[c], Graph(nodes, edges)) IN
       /\ nodes' = g.nodes
       /\ edges' = g.edges
       /\ inflight' = [inflight EXCEPT ![c] =
              ClientAfterQuery(@, Cardinality(g.edges \ edges))]
    /\ UNCHANGED <<call, openSessions, boot>>
    /\ UNCHANGED authVars

\* finally { await session.close(); } and the operation returns.
ClientReturns(c) ==
    /\ inflight[c].pc = "finally"
    /\ openSessions' = openSessions - 1
    /\ inflight' = [inflight EXCEPT ![c] = NoCall]
    /\ UNCHANGED <<nodes, edges, call, boot>>
    /\ UNCHANGED authVars

\* Inputs.
SeqsUpTo(S, n) == UNION {[1..k -> S] : k \in 0..n}

ObsLists == SeqsUpTo(Strings, MaxLen)

GraphInit ==
    /\ nodes = EmptyNodes
    /\ edges = {}
    /\ call = Idle
    /\ openSessions = 0
    /\ boot = Started
    /\ inflight = NoCalls

-----------------------------------------------------------------------------

AuthInit ==
    /\ \E d \in BOOLEAN, k \in BOOLEAN, dt \in BOOLEAN, kt \in BOOLEAN :
          /\ providers = Constructor(d, k, dt, kt)
          /\ config = [descopeProjectId |-> d, apiKeys |-> k]
    /\ iterated = NotIterating
    /\ authPc = "idle"
    /\ authReq = NoRequest
    /\ iterIdx = 0
    /\ calls = <<>>
    /\ authResult = Pending
    /\ response = Pending

AuthNext ==
    \/ \E req \in Requests : Authenticate(req)
    \/ ProviderCheck
    \/ ProviderSettles
    \/ FacadeAuthenticate

\* Authentication traffic with administrative changes of the provider list.
AdminNext ==
    \/ AuthNext
    \/ \E p \in ProviderNames : AddProvider(p)
    \/ \E name \in ProviderNames : RemoveProvider(name)

\* The observation log: entities of one type, no relations.
ObsEntities == [name : Names, type : {"Person"}, observations : ObsLists]
ObsAdditions == [entityName : Names, contents : ObsLists]
ObsDeletions == [entityName : Names, observations : ObsLists]

ObsNext ==
    \/ Ready /\ \E entities \in SeqsUpTo(ObsEntities, MaxRows) : CreateEntities(entities)
    \/ Ready /\ \E observations \in SeqsUpTo(ObsAdditions, MaxRows) :
          AddObservations(observations)
    \/ Ready /\ \E deletions \in SeqsUpTo(ObsDeletions, MaxRows) :
          DeleteObservations(deletions)
    \/ ToolReturns

\* Entities and relations: entities of either type, with one observation.
RelObsLists == {<<"x">>, <<"y">>}
RelEntities == [name : Names, type : Types, observations : RelObsLists]
Relations == [source : Names, target : Names, relationType : RelTypes]

RelNext ==
    \/ Ready /\ \E entities \in SeqsUpTo(RelEntities, MaxBatch) : CreateEntities(entities)
    \/ CreateEntitiesAgain
    \/ Ready /\ \E relations \in SeqsUpTo(Relations, MaxBatch) : CreateRelations(relations)
    \/ Ready /\ \E entityNames \in SeqsUpTo(Names, MaxBatch) : DeleteEntities(entityNames)
    \/ Ready /\ \E relations \in SeqsUpTo(Relations, MaxBatch) : DeleteRelations(relations)
    \/ Ready /\ \E filter \in {"*"} \cup Names : ReadGraph(filter)
    \/ GetStats
    \/ ToolReturns

\* Startup and tool calls against a store that may fail: entities of one
\* type, relations of one type.
StoreEntities == [name : Names, type : {"Person"}, observations : {<<"x">>}]
StoreRelations == [source : Names, target : Names, relationType : {"knows"}]
StoreAdditions == [entityName : Names, contents : {<<"x">>}]
StoreDeletions == [entityName : Names, observations : {<<"x">>}]

StoreNext ==
    \/ VerifyConnectivity
    \/ CreateFulltextIndex
    \/ InitializeSettles
    \/ ServerStart
    \/ Ready /\ \E entities \in SeqsUpTo(StoreEntities, MaxRows) : CallCreateEntities(entities)
    \/ Ready /\ \E relations \in SeqsUpTo(StoreRelations, MaxBatch) :
          CallCreateRelations(relations)
    \/ Ready /\ \E observations \in SeqsUpTo(StoreAdditions, MaxRows) :
          CallAddObservations(observations)
    \/ Ready /\ \E entityNames \in SeqsUpTo(Names, MaxRows) : CallDeleteEntities(entityNames)
    \/ Ready /\ \E deletions \in SeqsUpTo(StoreDeletions, MaxRows) :
          CallDeleteObservations(deletions)
    \/ Ready /\ \E relations \in SeqsUpTo(StoreRelations, MaxBatch) :
          CallDeleteRelations(relations)
    \/ CallLoadGraph("*")
    \/ CallGetStats
    \/ SessionRun
    \/ SessionClose
    \/ ToolReturns

\* Two clients whose store calls interleave query by query.
ConcurrentNext ==
    \/ \E c \in Clients :
          ClientReady(c) /\ \E entities \in SeqsUpTo(StoreEntities, MaxRows) :
                               ClientCreateEntities(c, entities)
    \/ \E c \in Clients :
          ClientReady(c) /\ \E relations \in SeqsUpTo(StoreRelations, MaxBatch) :
                               ClientCreateRelations(c, relations)
    \/ \E c \in Clients :
          ClientReady(c) /\ \E entityNames \in SeqsUpTo(Names, MaxRows) :
                               ClientDeleteEntities(c, entityNames)
    \/ \E c \in Clients :
          ClientReady(c) /\ \E relations \in SeqsUpTo(StoreRelations, MaxBatch) :
                               ClientDeleteRelations(c, relations)
    \/ \E c \in Clients : ClientQuery(c)
    \/ \E c \in Clients : ClientReturns(c)

\* The process as main finds it: nothing verified, no transport, an empty
\* store, no authentication configured.
StoreInit ==
    /\ AuthInit
    /\ providers = Constructor(FALSE, FALSE, FALSE, FALSE)
    /\ config = Unconfigured
    /\ nodes = EmptyNodes
    /\ edges = {}
    /\ call = Idle
    /\ openSessions = 0
    /\ boot = NotStarted
    /\ inflight = NoCalls

Init == AuthInit /\ GraphInit

Next == AdminNext \/ ObsNext \/ RelNext \/ StoreNext \/ ConcurrentNext

Spec == Init /\ [][Next]_vars

\* Authentication traffic alone.
SpecAuth == Init /\ [][AuthNext]_vars

\* Authentication traffic while the provider list is changed.
SpecAdmin == Init /\ [][AdminNext]_vars

\* A server started without authentication configured.
OpenInit ==
    /\ Init
    /\ providers = Constructor(FALSE, FALSE, FALSE, FALSE)
    /\ config = Unconfigured

\* Tool calls on the observation log, one at a time.
SpecObs == OpenInit /\ [][ObsNext]_vars

\* Tool calls on entities and relations, one at a time.
SpecRel == OpenInit /\ [][RelNext]_vars

\* Startup, then tool calls query by query, on a store that may fail.
SpecStore == StoreInit /\ [][StoreNext]_vars

\* Concurrent tool calls on entities and relations.
SpecConcurrent == OpenInit /\ [][ConcurrentNext]_vars

-----------------------------------------------------------------------------
(* The credential chain's properties.                                      *)

\* AuthManager.authenticate has returned or thrown for authReq.
AuthSettled == authResult.kind # "pending"

\* Some configured provider both claims the request and accepts it.
SomeProviderAuthenticates(ps, req) ==
    \E i \in 1..Len(ps) : CanHandle(ps[i], req) /\ ProviderAccepts(ps[i], req)

\* The first such provider's index.
FirstAuthenticating(ps, req) ==
    CHOOSE i \in 1..Len(ps) :
        /\ CanHandle(ps[i], req) /\ ProviderAccepts(ps[i], req)
        /\ \A j \in 1..(i - 1) :
              ~(CanHandle(ps[j], req) /\ ProviderAccepts(ps[j], req))

\* The provider methods a chain over ps[1..n] calls, in order: canHandle of
\* each, and authenticate of those whose canHandle is true.
RECURSIVE ChainCalls(_, _, _)
ChainCalls(ps, req, n) ==
    IF n = 0 THEN <<>>
    ELSE ChainCalls(ps, req, n - 1)
         \o (IF CanHandle(ps[n], req)
             THEN <<<<ps[n], "canHandle">>, <<ps[n], "authenticate">>>>
             ELSE <<<<ps[n], "canHandle">>>>)

\* C1: with the OAuth provider registered before the API-key provider, a
\* request with a valid API key and no bearer token, or with an invalid
\* bearer token, ends with the API-key provider's session; and whenever some
\* provider can authenticate the request, the call is not rejected.
C1_AuthFallback ==
    AuthSettled =>
        /\ (/\ providers = <<"oauth", "apikey">>
            /\ authReq.xApiKey = "good"
            /\ authReq.authorization \in {"none", "Bearer bad"})
           => authResult = Returned(ProviderSession("apikey", authReq))
        /\ SomeProviderAuthenticates(providers, authReq)
           => authResult.kind = "session"

\* C1's case (b): the OAuth provider's authenticate failed and the API-key
\* provider's session was returned.
C1_Witness ==
    /\ providers = <<"oauth", "apikey">>
    /\ authReq = [authorization |-> "Bearer bad", xApiKey |-> "good"]
    /\ calls = <<<<"oauth", "canHandle">>, <<"oauth", "authenticate">>,
                 <<"apikey", "canHandle">>, <<"apikey", "authenticate">>>>
    /\ authResult = Returned(ProviderSession("apikey", authReq))

\* C2: with at least one provider configured and none that both claims and
\* accepts the request, authenticate returns no session and throws the one
\* fixed error, and the facade answers 401 with the one fixed JSON body.
C2_Rejection ==
    (/\ Len(providers) > 0
     /\ ~SomeProviderAuthenticates(providers, authReq))
    => /\ AuthSettled => authResult = Thrown(AuthFailedError)
       /\ response.kind # "pending" => response = Unauthorized

\* C2's case: a bad bearer token and a bad API key, both providers failed,
\* and the facade has answered.
C2_Witness ==
    /\ providers = <<"oauth", "apikey">>
    /\ authReq = [authorization |-> "Bearer bad", xApiKey |-> "bad"]
    /\ authResult = Thrown(AuthFailedError)
    /\ response = Unauthorized

\* C3: with no provider configured every request, whatever its headers, ends
\* with the anonymous session (userId 'anonymous', type 'oauth', scopes
\* read and write), and no provider method is called.
C3_AnonymousMode ==
    (Len(providers) = 0 /\ AuthSettled)
    => /\ authResult.kind = "session"
       /\ authResult.session.userId = "anonymous"
       /\ authResult.session.type = "oauth"
       /\ authResult.session.scopes = <<"read", "write">>
       /\ calls = <<>>
       /\ response.kind # "pending" => response = authResult

\* C3's case: a request carrying credentials was let in as anonymous.
C3_Witness ==
    /\ Len(providers) = 0
    /\ authReq = [authorization |-> "Bearer bad", xApiKey |-> "bad"]
    /\ response = Returned(AnonymousSession)

\* C4: providers are registered OAuth first; the session returned is the one
\* of the first provider, in that order, that claims and accepts the request;
\* the methods called are canHandle of every provider up to that one and
\* authenticate of those among them whose canHandle is true, nothing after.
C4_OrderAndShortCircuit ==
    /\ providers \in {<<>>, <<"oauth">>, <<"apikey">>, <<"oauth", "apikey">>}
    /\ (AuthSettled /\ Len(providers) > 0 /\ authResult.kind = "session")
       => /\ SomeProviderAuthenticates(providers, authReq)
          /\ LET i == FirstAuthenticating(providers, authReq) IN
             /\ authResult.session = ProviderSession(providers[i], authReq)
             /\ calls = ChainCalls(providers, authReq, i)

\* C4's case: both credentials are valid, the OAuth provider answered and
\* the API-key provider was never asked.
C4_Witness ==
    /\ providers = <<"oauth", "apikey">>
    /\ authReq = [authorization |-> "Bearer good", xApiKey |-> "good"]
    /\ authResult = Returned(ProviderSession("oauth", authReq))
    /\ calls = <<<<"oauth", "canHandle">>, <<"oauth", "authenticate">>>>

-----------------------------------------------------------------------------
(* The graph store's properties.                                           *)

NoDuplicates(seq) ==
    \A i, j \in 1..Len(seq) : seq[i] = seq[j] => i = j

Occurrences(x, seq) == Cardinality({i \in 1..Len(seq) : seq[i] = x})

\* C5: in every state reached by createEntities, addObservations and
\* deleteObservations calls, no entity's observations hold a string twice.
C5_ObservationsUnique ==
    \A n \in Names : nodes[n].exists => NoDuplicates(nodes[n].observations)

\* C6: addObservations for one existing entity with observations E and
\* contents C leaves E followed by the set difference C \ E, each of its
\* strings once in the order of C, and reports exactly that slice as
\* addedObservations.
C6_AddObservationsSetDifference ==
    (/\ call.op = "addObservations"
     /\ Len(call.observations) = 1
     /\ call.before.nodes[call.observations[1].entityName].exists)
    => LET e == call.observations[1].entityName
           E == call.before.nodes[e].observations
           C == call.observations[1].contents
           difference == Distinct(SelectSeq(C, LAMBDA o : ~InSeq(o, E)))
       IN /\ nodes[e].observations = E \o difference
          /\ call.records = <<[entityName |-> e, addedObservations |-> difference]>>

\* The relation a caller supplied, as readGraph is to return it.
Triple(relation) ==
    [source |-> relation.source, target |-> relation.target,
     relationType |-> relation.relationType]

\* C7: after createRelations of two relations with the same existing source
\* and target and different relation types, the store holds two distinct
\* edges between them and readGraph returns both triples with the types the
\* caller supplied.
C7_RelationIdentity ==
    (/\ call.op = "createRelations"
     /\ Len(call.relations) = 2
     /\ call.relations[1].source = call.relations[2].source
     /\ call.relations[1].target = call.relations[2].target
     /\ call.relations[1].relationType # call.relations[2].relationType
     /\ nodes[call.relations[1].source].exists
     /\ nodes[call.relations[1].target].exists)
    => /\ Cardinality({r \in edges : /\ r.source = call.relations[1].source
                                     /\ r.target = call.relations[1].target}) >= 2
       /\ \A i \in 1..2 :
             InSeq(Triple(call.relations[i]),
                   LoadGraph(Graph(nodes, edges), "*").relations)

\* C8: after createRelations with a triple whose endpoints exist, created
\* once or again, readGraph holds that triple exactly once.
C8_RelationRoundTrip ==
    call.op = "createRelations"
    => \A i \in 1..Len(call.relations) :
          (nodes[call.relations[i].source].exists
           /\ nodes[call.relations[i].target].exists)
          => Occurrences(Triple(call.relations[i]),
                         LoadGraph(Graph(nodes, edges), "*").relations) = 1

\* C9: createEntities called a second time with the identical input leaves
\* the entities (name, type, observations) and the relations as the first
\* call left them.
C9_CreateEntitiesIdempotent ==
    (call.op = "createEntities" /\ call.repeated)
    => /\ nodes = call.before.nodes
       /\ edges = call.before.edges

\* C9's case: the repeated input names an entity twice with different
\* values, the entity has a relation, and the second call has returned.
C9_Witness ==
    /\ call.op = "createEntities"
    /\ call.repeated
    /\ Len(call.entities) = 2
    /\ call.entities[1].name = call.entities[2].name
    /\ call.entities[1] # call.entities[2]
    /\ \E r \in edges : r.source = call.entities[1].name

\* The last row of the input that names n.
LastRowFor(entities, n) ==
    entities[CHOOSE i \in 1..Len(entities) :
                /\ entities[i].name = n
                /\ \A j \in (i + 1)..Len(entities) : entities[j].name # n]

\* C10: createEntities leaves each named entity existing with exactly the
\* supplied type and observations (those of its last row), whether or not
\* the name existed before; previous observations are gone, not appended to;
\* other entities and all relations are as before; the input list is
\* returned unchanged.
C10_CreateEntitiesUpsert ==
    call.op = "createEntities"
    => /\ \A n \in Names :
             IF \E i \in 1..Len(call.entities) : call.entities[i].name = n
             THEN LET row == LastRowFor(call.entities, n) IN
                  /\ nodes[n].exists
                  /\ nodes[n].type = row.type
                  /\ nodes[n].observations = row.observations
             ELSE nodes[n] = call.before.nodes[n]
       /\ edges = call.before.edges
       /\ call.returnedEntities = call.entities

\* C10's case: an existing entity with a relation and the observation x is
\* created again as another type with the observation y.
C10_Witness ==
    /\ call.op = "createEntities"
    /\ call.entities = <<[name |-> "A", type |-> "City", observations |-> <<"y">>]>>
    /\ call.before.nodes["A"].exists
    /\ call.before.nodes["A"].type = "Person"
    /\ call.before.nodes["A"].observations = <<"x">>
    /\ \E r \in call.before.edges : r.source = "A" /\ r.target = "B"
    /\ nodes["A"].observations = <<"y">>
    /\ nodes["A"].type = "City"
    /\ edges = call.before.edges

\* Both endpoints of the relation name a node of the graph g.
EndpointsExist(g, relation) ==
    g.nodes[relation.source].exists /\ g.nodes[relation.target].exists

\* C11: createRelations raises no error and creates no node; a relation
\* whose source or target names no entity adds no edge, every relation of
\* the batch whose endpoints exist has its edge afterwards, and no other
\* edge is added or removed.
C11_MissingEndpoint ==
    call.op = "createRelations"
    => /\ call.returnedRelations = call.relations
       /\ nodes = call.before.nodes
       /\ call.before.edges \subseteq edges
       /\ \A i \in 1..Len(call.relations) :
             EndpointsExist(call.before, call.relations[i])
             => \E e \in edges : /\ e.source = call.relations[i].source
                                 /\ e.target = call.relations[i].target
       /\ \A e \in edges \ call.before.edges :
             \E i \in 1..Len(call.relations) :
                /\ EndpointsExist(call.before, call.relations[i])
                /\ e.source = call.relations[i].source
                /\ e.target = call.relations[i].target

\* C11's case: a batch whose first relation points at a missing entity and
\* whose second relation has both endpoints; only the second edge appears.
C11_Witness ==
    /\ call.op = "createRelations"
    /\ Len(call.relations) = 2
    /\ call.relations[1].source = "A" /\ call.relations[1].target = "B"
    /\ call.relations[2].source = "A" /\ call.relations[2].target = "A"
    /\ call.before.nodes["A"].exists
    /\ ~call.before.nodes["B"].exists
    /\ call.before.edges = {}
    /\ Cardinality(edges) = 1
    /\ \A e \in edges : e.source = "A" /\ e.target = "A"
    /\ nodes = call.before.nodes

\* The tool call left every entity and every relation as it found them.
GraphUnchanged == nodes = call.before.nodes /\ edges = call.before.edges

\* deleteEntities whose names all name no entity changes nothing.
DeleteEntitiesUnknown ==
    (/\ call.op = "deleteEntities"
     /\ \A i \in 1..Len(call.entityNames) :
           ~call.before.nodes[call.entityNames[i]].exists)
    => GraphUnchanged

\* addObservations whose rows all name no entity changes and reports nothing.
AddObservationsUnknown ==
    (/\ call.op = "addObservations"
     /\ \A i \in 1..Len(call.observations) :
           ~call.before.nodes[call.observations[i].entityName].exists)
    => GraphUnchanged /\ call.records = <<>>

\* deleteObservations whose rows all name no entity changes nothing.
DeleteObservationsUnknown ==
    (/\ call.op = "deleteObservations"
     /\ \A i \in 1..Len(call.deletions) :
           ~call.before.nodes[call.deletions[i].entityName].exists)
    => GraphUnchanged

\* deleteRelations whose triples all match no edge changes nothing.
DeleteRelationsUnknown ==
    (/\ call.op = "deleteRelations"
     /\ \A i \in 1..Len(call.relations) :
           Triple(call.relations[i]) \notin call.before.edges)
    => GraphUnchanged

\* C12: deleteEntities with names of no entity, addObservations and
\* deleteObservations naming no entity, and deleteRelations with triples
\* that match no edge all complete leaving every entity and every relation
\* unchanged.
C12_UnknownTargetNoOp ==
    /\ DeleteEntitiesUnknown
    /\ AddObservationsUnknown
    /\ DeleteObservationsUnknown
    /\ DeleteRelationsUnknown

\* C13: after deleteEntities(names) no entity named in names exists and no
\* relation has its source or its target in names; every entity not named
\* and every relation with neither endpoint named is as before.
C13_DeleteEntitiesCascade ==
    call.op = "deleteEntities"
    => LET named == {n \in Names : InSeq(n, call.entityNames)} IN
       /\ \A n \in named : ~nodes[n].exists
       /\ \A r \in edges : r.source \notin named /\ r.target \notin named
       /\ \A n \in Names \ named : nodes[n] = call.before.nodes[n]
       /\ edges = {r \in call.before.edges :
                      r.source \notin named /\ r.target \notin named}

\* C13's case: A is deleted while it has a relation to B and one from B,
\* and B has a relation to itself; B and its own relation remain.
C13_Witness ==
    /\ call.op = "deleteEntities"
    /\ call.entityNames = <<"A">>
    /\ call.before.nodes["A"].exists
    /\ call.before.nodes["B"].exists
    /\ \E r \in call.before.edges : r.source = "A" /\ r.target = "B"
    /\ \E r \in call.before.edges : r.source = "B" /\ r.target = "A"
    /\ \E r \in call.before.edges : r.source = "B" /\ r.target = "B"
    /\ ~nodes["A"].exists
    /\ nodes["B"] = call.before.nodes["B"]
    /\ Cardinality(edges) = 1
    /\ \A r \in edges : r.source = "B" /\ r.target = "B"

\* C14: deleteRelations removes the edges whose (source, relationType,
\* target) equal one of the given triples and no other edge: an edge between
\* the same endpoints under another relation type, and an edge in the
\* reverse direction, remain; entities are untouched.
C14_DeleteRelationsExact ==
    call.op = "deleteRelations"
    => /\ nodes = call.before.nodes
       /\ edges = call.before.edges
                  \ {Triple(call.relations[i]) : i \in 1..Len(call.relations)}

\* The strings some row of the deletions lists for entity n.
ListedFor(deletions, n) ==
    {o \in Strings : \E i \in 1..Len(deletions) :
                        /\ deletions[i].entityName = n
                        /\ InSeq(o, deletions[i].observations)}

\* C15: deleteObservations leaves an existing entity with observations E
\* and listed strings D holding E without every element that occurs in D,
\* the rest in their original order; strings of D not in E, and rows naming
\* no entity, have no effect; no other entity and no relation changes.
C15_DeleteObservationsSubtracts ==
    call.op = "deleteObservations"
    => /\ \A n \in Names :
             LET E == call.before.nodes[n].observations
                 D == ListedFor(call.deletions, n)
             IN nodes[n] = [call.before.nodes[n] EXCEPT
                               !.observations = SelectSeq(E, LAMBDA o : o \notin D)]
       /\ edges = call.before.edges

\* C15's case: A holds y, x, y and B holds x; deleting y (listed twice)
\* from A leaves A with x alone and B as it was.
C15_Witness ==
    /\ call.op = "deleteObservations"
    /\ call.deletions = <<[entityName |-> "A", observations |-> <<"y", "y">>]>>
    /\ call.before.nodes["A"].exists
    /\ call.before.nodes["A"].observations = <<"y", "x", "y">>
    /\ call.before.nodes["B"].exists
    /\ call.before.nodes["B"].observations = <<"x">>
    /\ nodes["A"].observations = <<"x">>
    /\ nodes["B"].observations = <<"x">>

\* The entity readGraph is to return for the node named n.
EntityOf(ns, n) ==
    [name |-> n, type |-> ns[n].type, observations |-> ns[n].observations]

\* The names of the entities the filter matches.
Matching(ns, filter) ==
    {n \in Names : ns[n].exists /\ FulltextMatches(filter, n, ns[n])}

Elements(seq) == {seq[i] : i \in 1..Len(seq)}

\* C16: loadGraph with a filter matching the entities M returns exactly the
\* entities of M, each once, and exactly the relations with at least one
\* endpoint in M, each once, those whose other endpoint is outside M
\* included; with '*' it returns every entity and every relation; a search
\* for a name only one entity carries returns exactly that entity.
C16_LoadGraphResult ==
    call.op = "loadGraph"
    => LET M == Matching(nodes, call.filter) IN
       /\ NoDuplicates(call.graph.entities)
       /\ Elements(call.graph.entities) = {EntityOf(nodes, n) : n \in M}
       /\ NoDuplicates(call.graph.relations)
       /\ Elements(call.graph.relations)
             = {r \in edges : r.source \in M \/ r.target \in M}
       /\ call.filter = "*"
          => /\ Len(call.graph.entities) = Cardinality({n \in Names : nodes[n].exists})
             /\ Elements(call.graph.relations) = edges
       /\ (call.filter \in Names /\ nodes[call.filter].exists)
          => call.graph.entities = <<EntityOf(nodes, call.filter)>>
       /\ GraphUnchanged

\* C16's case: a search for A while B has a relation to A, A one to itself
\* and B one to itself: A alone is returned, with the two relations that
\* touch it and without B's own.
C16_Witness ==
    /\ call.op = "loadGraph"
    /\ call.filter = "A"
    /\ nodes["A"].exists /\ nodes["B"].exists
    /\ {<<r.source, r.target>> : r \in edges}
          = {<<"B", "A">>, <<"A", "A">>, <<"B", "B">>}
    /\ call.graph.entities = <<EntityOf(nodes, "A")>>
    /\ Len(call.graph.relations) = 2
    /\ {<<r.source, r.target>> : r \in Elements(call.graph.relations)}
          = {<<"B", "A">>, <<"A", "A">>}

\* The lengths of the observation lists of the entities in S, added up.
RECURSIVE TotalObservations(_, _)
TotalObservations(ns, S) ==
    IF S = {} THEN 0
    ELSE LET n == CHOOSE m \in S : TRUE
         IN Len(ns[n].observations) + TotalObservations(ns, S \ {n})

\* C17: getStats reports the number of distinct entities, the number of
\* distinct relations, and as totalObservations the sum over the entities of
\* the lengths of their observation lists, each entity counted once however
\* many relations it takes part in.
C17_GetStatsCorrect ==
    call.op = "getStats"
    => LET present == {n \in Names : nodes[n].exists} IN
       /\ call.stats.entities = Cardinality(present)
       /\ call.stats.relations = Cardinality(edges)
       /\ call.stats.totalObservations = TotalObservations(nodes, present)

-----------------------------------------------------------------------------
(* The store's properties when queries may fail, and startup.              *)

\* The store rejected a query of the call, and the call has left its try
\* block.
FailedCall(op) ==
    /\ call.op = op
    /\ call.pc \in {"finally", "settled"}
    /\ call.storeError # "none"

\* C18: when the store fails while createRelations (deleteRelations) is
\* processing its k-th relation, the relations before the k-th remain
\* created (deleted), the k-th and the later ones are not applied, nothing
\* is rolled back, and the store's error is what the operation throws.
C18_NonAtomicBatches ==
    /\ FailedCall("createRelations")
       => /\ nodes = call.before.nodes
          /\ edges = CreateRelationsLoop(call.before.nodes, call.before.edges,
                                         SubSeq(call.relations, 1, call.k - 1))
          /\ call.error = call.storeError
          /\ call.returnedRelations = <<>>
    /\ FailedCall("deleteRelations")
       => /\ nodes = call.before.nodes
          /\ edges = DeleteRelationsLoop(call.before.edges,
                                         SubSeq(call.relations, 1, call.k - 1))
          /\ call.error = call.storeError

\* C18's case: createRelations of A to B and B to A on a graph without
\* relations fails at its second relation and has thrown; the first edge is
\* there, the second is not.
C18_Witness ==
    /\ FailedCall("createRelations")
    /\ call.pc = "settled"
    /\ Len(call.relations) = 2
    /\ call.k = 2
    /\ call.relations[1].source = "A" /\ call.relations[1].target = "B"
    /\ call.relations[2].source = "B" /\ call.relations[2].target = "A"
    /\ call.before.edges = {}
    /\ Cardinality(edges) = 1
    /\ \E e \in edges : e.source = "A" /\ e.target = "B"
    /\ call.error = "ServiceUnavailable"

\* C19: every store operation that opens a session closes it exactly once
\* before it returns or throws, whether its queries succeed or one of them
\* fails, a failure in the middle of a batch included; whenever no
\* operation is in flight no session is open.
C19_SessionsReleased ==
    /\ call.pc \in {"idle", "settled"} => openSessions = 0
    /\ call.pc \in {"run", "finally"}
       => openSessions = 1 /\ call.opened = 1 /\ call.closed = 0
    /\ call.pc = "settled" => call.opened = 1 /\ call.closed = 1

\* C19's case: deleteRelations has thrown after the store failed at the
\* second relation of its batch; its session was closed once and none is
\* open.
C19_Witness ==
    /\ FailedCall("deleteRelations")
    /\ call.pc = "settled"
    /\ Len(call.relations) = 2
    /\ call.k = 2
    /\ call.opened = 1
    /\ call.closed = 1
    /\ openSessions = 0

\* initialize has resolved.
Initialized == boot.pc \in {"initialized", "serving"}

\* C20: initialize succeeds exactly when connectivity is verified and the
\* index creation succeeds or fails with 'An index with this name already
\* exists'; a connectivity failure or any other index-creation failure
\* propagates, and then the process exits with status 1, the transport is
\* never started and no tool call is ever served; the transport is started,
\* and tool calls are served, only after initialize has succeeded.
C20_StartupGating ==
    /\ [](/\ Initialized
             => boot.connectivity = "ok" /\ boot.index \in {"ok", "exists"}
          /\ (boot.connectivity = "failed" \/ boot.index = "failed")
             <=> boot.pc = "exited"
          /\ boot.pc = "exited"
             => /\ boot.exitCode = "1"
                /\ ~boot.transport
                /\ call = Idle
                /\ openSessions = 0
                /\ nodes = EmptyNodes /\ edges = {}
          /\ boot.transport <=> Serving
          /\ call.op \notin {"idle", "createFulltextIndex"} => boot.transport)
    /\ [][boot.pc # "exited"]_vars

\* C20's case: connectivity was verified, the index creation failed with
\* another error, and the process has exited without starting the
\* transport.
C20_Witness ==
    /\ boot.pc = "exited"
    /\ boot.connectivity = "ok"
    /\ boot.index = "failed"
    /\ boot.exitCode = "1"
    /\ ~boot.transport
    /\ call = Idle
    /\ openSessions = 0

-----------------------------------------------------------------------------
(* Concurrent requests and administrative calls.                           *)

\* Every relation of the store joins two existing entities.
NoDanglingEdge ==
    \A r \in edges : nodes[r.source].exists /\ nodes[r.target].exists

\* The step is a query of a createRelations call.
CreateRelationsQueryStep ==
    \E c \in Clients : /\ inflight[c].op = "createRelations"
                       /\ inflight[c].pc = "run"
                       /\ inflight'[c] # inflight[c]

\* C21: with store calls of concurrent requests interleaving query by
\* query, every stored relation has an existing source and an existing
\* target in every reachable state, and no query of createRelations creates
\* (or recreates) an entity.
C21_ReferentialIntegrity ==
    /\ []NoDanglingEdge
    /\ [][CreateRelationsQueryStep => nodes' = nodes]_vars

\* C21's case: c1's createRelations of A to B and B to A has written its
\* first edge, c2's deleteEntities of B has then run, taking the edge with
\* it, and c1's second relation is still to be sent.
C21_Witness ==
    /\ inflight["c1"].op = "createRelations"
    /\ inflight["c1"].pc = "run"
    /\ inflight["c1"].wrote = 1
    /\ Len(inflight["c1"].relations) = 1
    /\ inflight["c1"].relations[1].source = "B"
    /\ inflight["c1"].relations[1].target = "A"
    /\ inflight["c2"].op = "deleteEntities"
    /\ inflight["c2"].pc = "finally"
    /\ inflight["c2"].entityNames = <<"B">>
    /\ nodes["A"].exists
    /\ ~nodes["B"].exists
    /\ edges = {}
    /\ openSessions = 2

\* Entry j of the log is a call of a method of provider p.
Consults(log, j, p) ==
    log[j][1] = p /\ log[j][2] \in {"canHandle", "authenticate"}

\* The names of the providers asked canHandle, in the order asked.
Consulted(log) ==
    LET asked == SelectSeq(log, LAMBDA entry : entry[2] = "canHandle")
    IN [i \in 1..Len(asked) |-> asked[i][1]]

\* A provider removed while authenticate was suspended is not consulted by
\* that call afterwards (unless it was added again in between), and so
\* produces no session for it.
RemovedNotConsulted ==
    \A i, j \in 1..Len(calls) :
        (i < j /\ calls[i][2] = "removed" /\ Consults(calls, j, calls[i][1]))
        => \E k \in (i + 1)..(j - 1) : calls[k] = <<calls[i][1], "added">>

\* The call consults providers in the order of the list it iterates, in
\* which a provider added during the call stands behind those registered
\* before it; after a removal the call iterates the list as it was.
AddedConsultedLast ==
    authPc \in {"loop", "await", "settled"} /\ iterated # NotIterating
    => /\ Len(Consulted(calls)) <= Len(iterated.array)
       /\ Consulted(calls) = SubSeq(iterated.array, 1, Len(Consulted(calls)))
       /\ iterated.live => iterated.array = providers

\* C22: when removeProvider(name) completes while an authenticate call is
\* suspended awaiting an earlier provider, that call does not afterwards
\* consult the removed provider or return a session it produced; a provider
\* added during such a suspension is consulted by that call only after all
\* previously registered providers.
C22_ProviderListMutation ==
    /\ RemovedNotConsulted
    /\ AddedConsultedLast

\* The AuthManager was constructed with a Descope project id or with a
\* non-empty list of API keys.
Configured == config.descopeProjectId \/ config.apiKeys

\* The request carries a credential that some scheme accepts.
ValidCredentials(req) ==
    \E p \in ProviderNames : CanHandle(p, req) /\ ProviderAccepts(p, req)

\* C23: an AuthManager constructed with a Descope project id or a non-empty
\* API-key list never returns the anonymous session afterwards, whether a
\* provider constructor threw during construction or providers were added
\* and removed since, and a request without valid credentials is rejected.
C23_NeverAnonymousWhenConfigured ==
    Configured =>
        /\ authResult # Returned(AnonymousSession)
        /\ response # Returned(AnonymousSession)
        /\ (AuthSettled /\ ~ValidCredentials(authReq))
           => authResult = Thrown(AuthFailedError)

====
